---- MODULE Spec2Model ----
(***************************************************************************)
(* unfy: the streaming number tokenizer (numberSplitter.Split driven by a  *)
(* bufio.Scanner), the range matcher (newMatcher / matcher.Match) and the  *)
(* loop of main that writes each token or its formatted timestamp.         *)
(*                                                                         *)
(* Bytes are one-character strings.  Offsets of a regexp location are kept  *)
(* as Go keeps them: 0-based, half open.  An int64 is kept as its sign and  *)
(* its canonical decimal digits, so that a 19 digit value and the overflow  *)
(* of strconv.ParseInt are exact.                                           *)
(***************************************************************************)
EXTENDS Integers, Sequences, FiniteSets, TLC

\* ------------------------------------------------------------------ bounds
MaxLen == 4          \* longest input drawn from every string over Alphabet
MaxReads == 3        \* most non-empty reads the input source delivers

\* --------------------------------------------------------------- constants
MaxFurther == 19     \* len(strconv.FormatInt(math.MaxInt64, 10)): the {0,19}

Digits == {"0", "1", "2", "3", "4", "5", "6", "7", "8", "9"}
NonZeroDigits == Digits \ {"0"}
Alphabet == {"a", "0", "1", "2"}
NUL == "nul"         \* a byte of the scanner's buffer that no read has filled
Nil == <<>>          \* a nil []int

DigitVal(c) ==
  CASE c = "0" -> 0 [] c = "1" -> 1 [] c = "2" -> 2 [] c = "3" -> 3
    [] c = "4" -> 4 [] c = "5" -> 5 [] c = "6" -> 6 [] c = "7" -> 7
    [] c = "8" -> 8 [] c = "9" -> 9

Min(S) == CHOOSE x \in S : \A y \in S : x <= y
Max(S) == CHOOSE x \in S : \A y \in S : x >= y
min(a, b) == IF a < b THEN a ELSE b
max(a, b) == IF a > b THEN a ELSE b

\* data[a:b] of Go
Slice(s, a, b) == SubSeq(s, a + 1, b)
Rep(c, k) == [i \in 1..k |-> c]
HasPrefix(b, p) == Len(b) >= Len(p) /\ SubSeq(b, 1, Len(p)) = p

\* ------------------------------------------------------------ int64 values
\* [neg, digits]: digits canonical (no leading zero, "0" for zero, no -0)
I64(neg, ds) == [neg |-> neg, digits |-> ds]
MaxInt64 ==
  I64(FALSE, <<"9","2","2","3","3","7","2","0","3","6","8","5","4","7","7","5","8","0","7">>)

\* a < b for canonical digit strings of non-negative numbers
MagLess(a, b) ==
  \/ Len(a) < Len(b)
  \/ /\ Len(a) = Len(b)
     /\ \E i \in 1..Len(a) :
          /\ DigitVal(a[i]) < DigitVal(b[i])
          /\ \A j \in 1..(i - 1) : a[j] = b[j]

IntLess(x, y) ==
  IF x.neg /\ ~y.neg THEN TRUE
  ELSE IF ~x.neg /\ y.neg THEN FALSE
  ELSE IF x.neg THEN MagLess(y.digits, x.digits)
  ELSE MagLess(x.digits, y.digits)
IntLeq(x, y) == x = y \/ IntLess(x, y)

\* strconv.FormatInt(v, 10)
FormatInt(v) == (IF v.neg THEN <<"-">> ELSE <<>>) \o v.digits

StripZeros(b) ==
  IF \A i \in 1..Len(b) : b[i] = "0" THEN <<"0">>
  ELSE SubSeq(b, Min({i \in 1..Len(b) : b[i] # "0"}), Len(b))

\* strconv.ParseInt(string(b), 10, 64): [ok, value].  A leading sign is
\* accepted by ParseInt; every other non-digit byte is a syntax error.
ParseInt(b) ==
  LET signed == Len(b) > 0 /\ b[1] \in {"+", "-"}
      body == IF signed THEN Tail(b) ELSE b
      mag == StripZeros(body)
      neg == signed /\ b[1] = "-" /\ mag # <<"0">>
  IN IF Len(body) = 0 \/ \E i \in 1..Len(body) : body[i] \notin Digits
       THEN [ok |-> FALSE, value |-> I64(FALSE, <<"0">>)]
     ELSE IF MagLess(MaxInt64.digits, mag)
               /\ ~(neg /\ mag = <<"9","2","2","3","3","7","2","0","3","6","8","5","4","7","7","5","8","0","8">>)
       THEN [ok |-> FALSE, value |-> I64(FALSE, <<"0">>)]
     ELSE [ok |-> TRUE, value |-> I64(neg, mag)]

\* ------------------------------------------------------------ the matcher
\* Contains without the test of the upper bound
ContainsNoUpper(u, i) == IntLeq(u.Lower, i)

Contains(u, i) == IntLeq(u.Lower, i) /\ IntLeq(i, u.Upper)

buildPrefixOrdered(shorter, longer) ==
  LET same == {k \in 0..Len(shorter) : \A i \in 1..k : longer[i] = shorter[i]}
  IN SubSeq(shorter, 1, Max(same))

buildPrefix(a, b) ==
  IF Len(a) < Len(b) THEN buildPrefixOrdered(a, b) ELSE buildPrefixOrdered(b, a)

newMatcher(r) ==
  LET lowerString == FormatInt(r.Lower)
      upperString == FormatInt(r.Upper)
  IN [uRange |-> r,
      maxLen |-> max(Len(lowerString), Len(upperString)),
      minLen |-> min(Len(lowerString), Len(upperString)),
      prefix |-> buildPrefix(lowerString, upperString)]

Match(u, b) ==
  IF Len(b) < u.minLen \/ Len(b) > u.maxLen
    THEN [conversion |-> I64(FALSE, <<"0">>), match |-> FALSE]
  ELSE IF ~HasPrefix(b, u.prefix)
    THEN [conversion |-> I64(FALSE, <<"0">>), match |-> FALSE]
  ELSE LET p == ParseInt(b)
       IN IF ~p.ok THEN [conversion |-> I64(FALSE, <<"0">>), match |-> FALSE]
          ELSE [conversion |-> p.value, match |-> Contains(u.uRange, p.value)]

\* ------------------------------------------------------------- the regexp
\* number.FindSubmatchIndex(data) for 0*([1-9][0-9]{0,19}) with Longest():
\* the leftmost match ends its zeros at the first non-zero digit of data,
\* starts at the first of the zeros right before it, and takes as many of
\* the following digits as the repetition allows.
FindSubmatchIndex(data) ==
  LET nz == {i \in 1..Len(data) : data[i] \in NonZeroDigits}
  IN IF nz = {} THEN Nil
     ELSE LET k == Min(nz)
              z == Min({i \in 1..k : \A j \in i..(k - 1) : data[j] = "0"})
              e == Max({i \in k..min(Len(data), k + MaxFurther) :
                          \A j \in k..i : data[j] \in Digits})
          IN <<z - 1, e, k - 1, e>>

\* ----------------------------------------------------------- the splitter
\* What one call of Split returns: advance, token (tokenNil: the token is a
\* nil slice), err, the splitter after the call (n) and the line of the
\* return statement taken (ret).
Resp(advance, token, tokenNil, e, n, ret) ==
  [advance |-> advance, token |-> token, tokenNil |-> tokenNil, err |-> e,
   n |-> n, ret |-> ret]

\* lines 239-245 without line 243: the flag is left set
SplitNeedMoreKeepsFlag(n, data, atEOF) ==
  Resp(0, <<>>, TRUE, "nil", n, 244)

\* lines 239-245
SplitNeedMore(n, data, atEOF) ==
  Resp(0, <<>>, TRUE, "nil", [n EXCEPT !.nextNeedMore = FALSE], 244)

\* lines 246-252 without line 249: NumberLoc is left as it was
SplitCachedKeepsNumberLoc(n, data, atEOF) ==
  LET loc == n.nextLoc
  IN Resp(loc[2] - loc[1], Slice(data, loc[1], loc[2]), FALSE, "nil",
          [n EXCEPT !.nextLoc = Nil], 251)

\* lines 246-252
SplitCached(n, data, atEOF) ==
  LET loc == n.nextLoc
  IN Resp(loc[2] - loc[1], Slice(data, loc[1], loc[2]), FALSE, "nil",
          [n EXCEPT !.NumberLoc = loc, !.nextLoc = Nil], 251)

\* lines 255-260
SplitNoMatch(n, data, atEOF) ==
  IF atEOF THEN Resp(Len(data), data, FALSE, "ErrFinalToken", n, 257)
  ELSE Resp(Len(data), data, FALSE, "nil", n, 259)

\* lines 261-284 with line 270 advancing past the match it keeps for later
SplitPrefixSkipsMatch(n, data, atEOF, loc) ==
  IF loc[2] = Len(data)
    THEN IF atEOF THEN Resp(Len(data), data, FALSE, "ErrFinalToken", n, 267)
         ELSE Resp(loc[2], Slice(data, 0, loc[1]), FALSE, "nil",
                   [n EXCEPT !.nextNeedMore = TRUE], 270)
  ELSE LET toReturn == Slice(data, 0, loc[1])
           toSubtract == loc[1]
           shifted == <<0, loc[2] - toSubtract, loc[3] - toSubtract,
                        loc[4] - toSubtract>>
       IN Resp(Len(toReturn), toReturn, FALSE, "nil",
               [n EXCEPT !.nextLoc = shifted], 283)

\* lines 261-284 without the test of atEOF at lines 265-268
SplitPrefixIgnoresEOF(n, data, atEOF, loc) ==
  IF loc[2] = Len(data)
    THEN Resp(loc[1], Slice(data, 0, loc[1]), FALSE, "nil",
              [n EXCEPT !.nextNeedMore = TRUE], 270)
  ELSE LET toReturn == Slice(data, 0, loc[1])
           toSubtract == loc[1]
           shifted == <<0, loc[2] - toSubtract, loc[3] - toSubtract,
                        loc[4] - toSubtract>>
       IN Resp(Len(toReturn), toReturn, FALSE, "nil",
               [n EXCEPT !.nextLoc = shifted], 283)

\* lines 261-284 without line 279: the start of the digits is not shifted
SplitPrefixKeepsDigitsOffset(n, data, atEOF, loc) ==
  IF loc[2] = Len(data)
    THEN IF atEOF THEN Resp(Len(data), data, FALSE, "ErrFinalToken", n, 267)
         ELSE Resp(loc[1], Slice(data, 0, loc[1]), FALSE, "nil",
                   [n EXCEPT !.nextNeedMore = TRUE], 270)
  ELSE LET toReturn == Slice(data, 0, loc[1])
           toSubtract == loc[1]
           shifted == <<0, loc[2] - toSubtract, loc[3],
                        loc[4] - toSubtract>>
       IN Resp(Len(toReturn), toReturn, FALSE, "nil",
               [n EXCEPT !.nextLoc = shifted], 283)

\* lines 261-284, loc[0] > 0
SplitPrefix(n, data, atEOF, loc) ==
  IF loc[2] = Len(data)
    THEN IF atEOF THEN Resp(Len(data), data, FALSE, "ErrFinalToken", n, 267)
         ELSE Resp(loc[1], Slice(data, 0, loc[1]), FALSE, "nil",
                   [n EXCEPT !.nextNeedMore = TRUE], 270)
  ELSE LET toReturn == Slice(data, 0, loc[1])
           toSubtract == loc[1]
           shifted == <<0, loc[2] - toSubtract, loc[3] - toSubtract,
                        loc[4] - toSubtract>>
       IN Resp(Len(toReturn), toReturn, FALSE, "nil",
               [n EXCEPT !.nextLoc = shifted], 283)

\* lines 286-287 asking for more data, through nextNeedMore, when the match
\* reaches the end of the buffer before end of stream
SplitAtZeroAwaits(n, data, atEOF, loc) ==
  IF loc[2] = Len(data) /\ ~atEOF
    THEN Resp(0, <<>>, TRUE, "nil", [n EXCEPT !.nextNeedMore = TRUE], 287)
  ELSE Resp(loc[2] - loc[1], Slice(data, loc[1], loc[2]), FALSE, "nil",
            [n EXCEPT !.NumberLoc = loc], 287)

\* lines 286-287, loc[0] = 0
SplitAtZero(n, data, atEOF, loc) ==
  Resp(loc[2] - loc[1], Slice(data, loc[1], loc[2]), FALSE, "nil",
       [n EXCEPT !.NumberLoc = loc], 287)

Split(n, data, atEOF) ==
  IF n.nextNeedMore THEN SplitNeedMore(n, data, atEOF)
  ELSE IF n.nextLoc # Nil THEN SplitCached(n, data, atEOF)
  ELSE LET loc == FindSubmatchIndex(data)
       IN IF loc = Nil THEN SplitNoMatch(n, data, atEOF)
          ELSE IF loc[1] > 0 THEN SplitPrefix(n, data, atEOF, loc)
          ELSE SplitAtZero(n, data, atEOF, loc)

\* ------------------------------------------------------- the loop of main
\* formatter.Format(timeConverter(unix)): the collaborators are outside the
\* core; the rendering is kept as the value between two marker bytes that no
\* input holds, so two renderings are equal exactly when the values are.
Format(unix) == <<"[">> \o FormatInt(unix) \o <<"]">>

\* b[a:c] of the token that starts at byte tokStart of the scanner's buffer:
\* a slice of a slice reaches up to the capacity of the buffer, so it reads
\* the bytes that follow the token, and NUL where no read has written yet.
BufSlice(b, tokStart, a, c) ==
  [i \in 1..(c - a) |->
     IF tokStart + a + i <= Len(b) THEN b[tokStart + a + i] ELSE NUL]

\* lines 73-77 writing data[numberLoc[2]:], the token without its zeros
writeRejectedFromDigits(data, numberLoc) ==
  SubSeq(data, min(numberLoc[3], Len(data)) + 1, Len(data))

\* lines 73-77: what is written for a candidate the matcher rejects
writeRejected(data, numberLoc) == data

\* lines 63-83: one pass of the loop body for the token data
mainBody(u, b, tokStart, data, numberLoc) ==
  IF numberLoc = Nil
    THEN [passed |-> FALSE, arg |-> <<>>, match |-> FALSE, written |-> data]
  ELSE LET arg == BufSlice(b, tokStart, numberLoc[3], numberLoc[4])
           r == Match(u, arg)
       IN IF ~r.match
            THEN [passed |-> TRUE, arg |-> arg, match |-> FALSE,
                  written |-> writeRejected(data, numberLoc)]
          ELSE [passed |-> TRUE, arg |-> arg, match |-> TRUE,
                written |-> Format(r.conversion)]

\* --------------------------------------------------------------- the state
VARIABLES
  input,      \* the whole byte stream of the run
  unixRange,  \* the range main builds the matcher from
  unread,     \* the part of input the reader has not delivered yet
  reads,      \* non-empty reads delivered so far
  buf,        \* the bytes read into the scanner's buffer
  start,      \* s.start: bytes of buf consumed by tokens
  err,        \* s.err: "nil" or "EOF"
  pc,         \* "scan": about to call Split; "read": must read; "exit"
  splitter,   \* the numberSplitter: NumberLoc, nextLoc, nextNeedMore
  output,     \* the bytes written so far
  tokens,     \* every token Scan returned, with what main did with it
  lastCall    \* the last call of Split and its response

vars == <<input, unixRange, unread, reads, buf, start, err, pc, splitter,
          output, tokens, lastCall>>

I(ds) == I64(FALSE, ds)
LongOnes == Rep("1", MaxFurther + 2)
LongNines == <<"a", "0">> \o Rep("9", MaxFurther) \o <<"a">>
LongFits == <<"0">> \o Rep("1", MaxFurther)

Inputs ==
  UNION {[1..k -> Alphabet] : k \in 0..MaxLen}
    \cup {LongOnes, LongNines, LongFits}

Ranges ==
  { [Lower |-> I(<<"1">>), Upper |-> I(<<"1", "2">>)],
    [Lower |-> I(<<"1", "0">>), Upper |-> I(<<"1", "2">>)],
    [Lower |-> I(<<"0">>), Upper |-> I(<<"2">>)],
    [Lower |-> I64(TRUE, <<"2">>), Upper |-> I(<<"2", "0">>)],
    [Lower |-> I(<<"1">>), Upper |-> MaxInt64] }

\* splitter := &numberSplitter{}
InitSplitter == [NumberLoc |-> Nil, nextLoc |-> Nil, nextNeedMore |-> FALSE]

NoCall ==
  [called |-> FALSE, data |-> <<>>, atEOF |-> FALSE, idle |-> TRUE,
   advance |-> 0, tokenNil |-> TRUE, err |-> "nil", ret |-> 0,
   afterNeedMore |-> FALSE]

Init ==
  /\ input \in Inputs
  /\ unixRange \in Ranges
  /\ unread = input
  /\ reads = 0
  /\ buf = <<>>
  /\ start = 0
  /\ err = "nil"
  /\ pc = "scan"
  /\ splitter = InitSplitter
  /\ output = <<>>
  /\ tokens = <<>>
  /\ lastCall = NoCall

\* bufio.Scanner.Scan: Split is called when the buffer holds unconsumed
\* bytes or the reader has ended
CanSplit == pc = "scan" /\ (Len(buf) > start \/ err # "nil")
MustRead == pc = "read" \/ (pc = "scan" /\ Len(buf) = start /\ err = "nil")

Data == Slice(buf, start, Len(buf))
Response == Split(splitter, Data, err # "nil")

CallOf(r) ==
  [called |-> TRUE, data |-> Data, atEOF |-> err # "nil",
   idle |-> ~splitter.nextNeedMore /\ splitter.nextLoc = Nil,
   advance |-> r.advance, tokenNil |-> r.tokenNil, err |-> r.err,
   ret |-> r.ret,
   afterNeedMore |-> lastCall.called /\ lastCall.tokenNil]

\* main receives the token: lines 63-83
Deliver(r) ==
  LET w == mainBody(newMatcher(unixRange), buf, start, r.token,
                    r.n.NumberLoc)
  IN /\ output' = output \o w.written
     /\ tokens' = Append(tokens,
          [bytes |-> r.token, off |-> start, ret |-> r.ret,
           numberLoc |-> r.n.NumberLoc, passed |-> w.passed, arg |-> w.arg,
           match |-> w.match, written |-> w.written])

\* Split returns a token and no error: Scan advances and returns true
ScanToken ==
  /\ CanSplit
  /\ LET r == Response
     IN /\ r.err = "nil" /\ ~r.tokenNil
        /\ splitter' = r.n
        /\ start' = start + r.advance
        /\ lastCall' = CallOf(r)
        /\ Deliver(r)
  /\ UNCHANGED <<input, unixRange, unread, reads, buf, err, pc>>

\* Split returns ErrFinalToken: Scan returns the token, the next Scan false
ScanFinalToken ==
  /\ CanSplit
  /\ LET r == Response
     IN /\ r.err = "ErrFinalToken"
        /\ splitter' = r.n
        /\ lastCall' = CallOf(r)
        /\ Deliver(r)
  /\ pc' = "exit"
  /\ UNCHANGED <<input, unixRange, unread, reads, buf, start, err>>

\* Split returns no token: the scanner reads more, or stops at end of input
ScanNeedMore ==
  /\ CanSplit
  /\ LET r == Response
     IN /\ r.err = "nil" /\ r.tokenNil
        /\ splitter' = r.n
        /\ start' = start + r.advance
        /\ lastCall' = CallOf(r)
  /\ pc' = IF err # "nil" THEN "exit" ELSE "read"
  /\ UNCHANGED <<input, unixRange, unread, reads, buf, err, output, tokens>>

\* the reader delivers k more bytes
Read ==
  /\ MustRead
  /\ unread # <<>>
  /\ \E k \in 1..Len(unread) :
       /\ reads + 1 < MaxReads \/ k = Len(unread)
       /\ buf' = buf \o SubSeq(unread, 1, k)
       /\ unread' = SubSeq(unread, k + 1, Len(unread))
  /\ reads' = reads + 1
  /\ pc' = "scan"
  /\ UNCHANGED <<input, unixRange, start, err, splitter, output, tokens,
                 lastCall>>

\* the reader reports the end of the input
ReadEOF ==
  /\ MustRead
  /\ unread = <<>>
  /\ err' = "EOF"
  /\ pc' = "scan"
  /\ UNCHANGED <<input, unixRange, unread, reads, buf, start, splitter,
                 output, tokens, lastCall>>

Next == ScanToken \/ ScanFinalToken \/ ScanNeedMore \/ Read \/ ReadEOF

Spec == Init /\ [][Next]_vars

\* A reader that returns its last bytes together with io.EOF, as the contract
\* of io.Reader allows and bufio.Scanner accepts: Split is then called with
\* fresh bytes and atEOF = true.  The readers newScanner builds from *os.File
\* report the end with no bytes, so this step is not part of Spec; it drives
\* Split through the remaining cases of the bufio.SplitFunc contract.
ReadWithEOF ==
  /\ MustRead
  /\ unread # <<>>
  /\ buf' = buf \o unread
  /\ unread' = <<>>
  /\ reads' = reads + 1
  /\ err' = "EOF"
  /\ pc' = "scan"
  /\ UNCHANGED <<input, unixRange, start, splitter, output, tokens, lastCall>>

NextAnyReader == Next \/ ReadWithEOF

SpecAnyReader == Init /\ [][NextAnyReader]_vars

\* The program is one sequential loop and a blocking read returns: a step
\* that can be taken is taken.
FairSpec == Spec /\ WF_vars(Next)

\* ============================================================= properties
Done == pc = "exit"
IsCand(t) == t.ret \in {251, 287}
digitsSpan(t) == Slice(t.bytes, t.numberLoc[3], t.numberLoc[4])
Last(q) == q[Len(q)]
TokenIdx == 1..Len(tokens)

\* the run of main when the whole of b arrives in one read: the same Split
\* and the same loop body, the reader answering end of input afterwards
RECURSIVE Drive(_, _, _, _, _, _)
Drive(u, b, st, e, n, out) ==
  IF Len(b) = st /\ e = "nil" THEN Drive(u, b, st, "EOF", n, out)
  ELSE LET r == Split(n, Slice(b, st, Len(b)), e # "nil")
           w == mainBody(u, b, st, r.token, r.n.NumberLoc)
       IN IF r.err = "ErrFinalToken" THEN out \o w.written
          ELSE IF r.tokenNil
            THEN IF e # "nil" THEN out
                 ELSE Drive(u, b, st + r.advance, "EOF", r.n, out)
          ELSE Drive(u, b, st + r.advance, e, r.n, out \o w.written)
SingleReadOutput == Drive(newMatcher(unixRange), input, 0, "nil", InitSplitter, <<>>)

\* C1: when the run ends, the bytes written equal the bytes written when the
\* whole input arrives in a single read, whatever the reads were.
C1_ChunkInvariance == Done => output = SingleReadOutput

\* C2: every literal token is written with exactly its own bytes and is
\* never handed to the matcher, whatever tokens came before it.
C2_LiteralUntouched ==
  \A i \in TokenIdx :
    ~IsCand(tokens[i]) =>
      ~tokens[i].passed /\ tokens[i].written = tokens[i].bytes

\* a token that is a whole digit run of the input
WholeRun(t) ==
  LET a == t.off
      z == t.off + Len(t.bytes)
  IN /\ (a = 0 \/ input[a] \notin Digits)
     /\ (z = Len(input) \/ input[z + 1] \notin Digits)

\* C3: every digit run of the input whose significant digits parse to a
\* value inside [Lower, Upper] is accepted by the matcher and written as the
\* formatted value in place of the whole run.
C3_SubstituteInRange ==
  \A i \in TokenIdx :
    LET t == tokens[i]
    IN (IsCand(t) /\ WholeRun(t)) =>
         LET p == ParseInt(digitsSpan(t))
         IN (p.ok /\ Contains(unixRange, p.value)) =>
              t.match /\ t.written = Format(p.value)

\* C4: a candidate token whose digitsSpan the matcher rejects is written as
\* its own bytes, leading zeros included, and the scan goes on after it: the
\* run never ends on a rejected candidate.
C4_RejectedPassThrough ==
  /\ \A i \in TokenIdx :
       LET t == tokens[i]
       IN (IsCand(t) /\ ~t.match) =>
            /\ t.passed /\ t.arg = digitsSpan(t)
            /\ ~Match(newMatcher(unixRange), digitsSpan(t)).match
            /\ t.written = t.bytes
  /\ (tokens # <<>> /\ IsCand(Last(tokens)) /\ ~Last(tokens).match) => ~Done

\* a rejected candidate with a leading zero whose digits overflow int64 was
\* written and the run went on to its end
C4_Witness ==
  /\ Done
  /\ \E i \in TokenIdx :
       LET t == tokens[i]
       IN /\ IsCand(t) /\ ~t.match
          /\ t.numberLoc[3] > 0
          /\ ~ParseInt(digitsSpan(t)).ok
          /\ i < Len(tokens)

\* C5: the tokens are consecutive spans of the input in input order, every
\* response that returns a token advances by the length of that token, and
\* when the scan ends the spans cover the whole input.
C5_TokenPartition ==
  /\ \A i \in TokenIdx :
       LET t == tokens[i]
       IN /\ t.off = (IF i = 1 THEN 0
                      ELSE tokens[i - 1].off + Len(tokens[i - 1].bytes))
          /\ t.off + Len(t.bytes) <= Len(input)
          /\ t.bytes = Slice(input, t.off, t.off + Len(t.bytes))
  /\ (lastCall.called /\ ~lastCall.tokenNil) =>
       lastCall.advance = Len(Last(tokens).bytes)
  /\ (lastCall.called /\ lastCall.tokenNil) => lastCall.advance = 0
  /\ Done => /\ tokens # <<>>
             /\ Last(tokens).off + Len(Last(tokens).bytes) = Len(input)

\* a finished scan of an input that was cut into a literal, a candidate and
\* a literal again, read in more than one piece
C5_Witness ==
  /\ Done /\ reads > 1
  /\ \E i, j, k \in TokenIdx :
       /\ i < j /\ j < k
       /\ ~IsCand(tokens[i]) /\ Len(tokens[i].bytes) > 0
       /\ IsCand(tokens[j])
       /\ ~IsCand(tokens[k]) /\ Len(tokens[k].bytes) > 0

\* the maximal digit runs of the input, as <<first, last>>
MaximalRuns ==
  {<<a, z>> \in (1..Len(input)) \X (1..Len(input)) :
     /\ a <= z
     /\ \A j \in a..z : input[j] \in Digits
     /\ (a = 1 \/ input[a - 1] \notin Digits)
     /\ (z = Len(input) \/ input[z + 1] \notin Digits)}

\* the run input[a..z] matches 0*[1-9][0-9]{0,19} as a whole
MatchesPattern(a, z) ==
  \E k \in a..z :
    /\ \A j \in a..(k - 1) : input[j] = "0"
    /\ input[k] \in NonZeroDigits
    /\ z - k <= MaxFurther

InLen(l) ==
  LET u == newMatcher(unixRange) IN u.minLen <= l /\ l <= u.maxLen

\* C6: when every maximal digit run of the input fits the pattern whole and
\* none of them has a length (of the run, or of its significant digits) in
\* [minLen, maxLen], the output equals the input, whatever the reads were.
C6_IdentityNoCandidates ==
  (Done /\ \A r \in MaximalRuns :
             \/ \A j \in r[1]..r[2] : input[j] = "0"
             \/ /\ MatchesPattern(r[1], r[2])
                /\ ~InLen(r[2] - r[1] + 1)
                /\ \A k \in r[1]..r[2] :
                     input[k] \in NonZeroDigits => ~InLen(r[2] - k + 1))
    => output = input

C8_LeftmostLongest ==
  \A i \in TokenIdx :
    LET t == tokens[i]
        z == t.off + Len(t.bytes)
    IN IsCand(t) =>
         /\ (z < Len(input) /\ input[z + 1] \in Digits) =>
              Len(digitsSpan(t)) = MaxFurther + 1
         /\ (i > 1 /\ ~IsCand(tokens[i - 1])) =>
              FindSubmatchIndex(tokens[i - 1].bytes \o t.bytes)[1]
                = Len(tokens[i - 1].bytes)

\* C9: a candidate token is zeros followed by a digitsSpan that starts with
\* a non-zero digit and has at most 19 digits, the digit count of MaxInt64.
C9_CandidateShape ==
  \A i \in TokenIdx :
    LET t == tokens[i]
    IN IsCand(t) =>
         /\ \A j \in 1..t.numberLoc[3] : t.bytes[j] = "0"
         /\ digitsSpan(t)[1] \in NonZeroDigits
         /\ \A j \in 1..Len(t.bytes) : t.bytes[j] \in Digits
         /\ Len(digitsSpan(t)) <= Len(MaxInt64.digits)

\* C10: an idle Split called before end of stream with the match at offset 0
\* reaching the end of the buffer consumes nothing and returns no token.
C10_AwaitMoreAtZero ==
  (/\ lastCall.called /\ lastCall.idle /\ ~lastCall.atEOF
   /\ FindSubmatchIndex(lastCall.data) # Nil
   /\ FindSubmatchIndex(lastCall.data)[1] = 0
   /\ FindSubmatchIndex(lastCall.data)[2] = Len(lastCall.data))
    => lastCall.advance = 0 /\ lastCall.tokenNil

\* the last call of Split was idle, at end of stream, and its leftmost match
\* started after offset 0 and reached the end of the buffer
EOFPrefixCall ==
  /\ lastCall.called /\ lastCall.idle /\ lastCall.atEOF
  /\ FindSubmatchIndex(lastCall.data) # Nil
  /\ FindSubmatchIndex(lastCall.data)[1] > 0
  /\ FindSubmatchIndex(lastCall.data)[2] = Len(lastCall.data)

C12_CachedIsFreshMatch ==
  (lastCall.called /\ lastCall.ret = 251) =>
    LET loc == FindSubmatchIndex(lastCall.data)
        t == Last(tokens)
    IN /\ loc # Nil
       /\ loc[1] = 0
       /\ t.numberLoc = loc
       /\ t.bytes = Slice(lastCall.data, loc[1], loc[2])
       /\ lastCall.advance = loc[2] - loc[1]
       /\ splitter.nextLoc = Nil /\ ~splitter.nextNeedMore
       /\ Len(tokens) > 1 /\ tokens[Len(tokens) - 1].ret = 283

\* a cached candidate with leading zeros was returned
C12_Witness ==
  /\ lastCall.called /\ lastCall.ret = 251
  /\ Last(tokens).numberLoc[3] > 0
  /\ Len(lastCall.data) > Len(Last(tokens).bytes)

\* C13: the call that follows a response without a token returns a token
\* and advances: two such responses never follow one another.
C13_NoTwoNeedMore ==
  (lastCall.called /\ lastCall.afterNeedMore) =>
    ~lastCall.tokenNil /\ lastCall.advance > 0

\* the call after an empty response, made on a buffer that a read extended
C13_Witness ==
  /\ lastCall.called /\ lastCall.afterNeedMore
  /\ ~lastCall.atEOF
  /\ ~lastCall.tokenNil

\* what is left to do: bytes to read, bytes to hand out, the end of stream
\* to meet, and the place in the loop of Scan
Rank ==
  3 * Len(unread) + 3 * (Len(input) - start)
    + (IF err = "nil" THEN 3 ELSE 0)
    + (CASE pc = "scan" -> 2 [] pc = "read" -> 1 [] pc = "exit" -> 0)

\* the enabling condition of Next: with CanSplit one of ScanToken,
\* ScanFinalToken and ScanNeedMore takes the response, whichever of the two
\* errors it carries; with MustRead one of Read and ReadEOF is enabled, as
\* unread is empty or not
CanStep ==
  \/ CanSplit /\ Response.err \in {"nil", "ErrFinalToken"}
  \/ MustRead

AllConsumed ==
  /\ unread = <<>>
  /\ tokens # <<>>
  /\ Last(tokens).off + Len(Last(tokens).bytes) = Len(input)

C15_MatchSound ==
  \A i \in TokenIdx :
    LET t == tokens[i]
        v == I64(FALSE, StripZeros(t.arg))
    IN t.match =>
         /\ t.passed
         /\ Len(t.arg) > 0 /\ \A j \in 1..Len(t.arg) : t.arg[j] \in Digits
         /\ t.written = Format(v)
         /\ ~MagLess(MaxInt64.digits, v.digits)
         /\ ~IntLess(v, unixRange.Lower)
         /\ ~IntLess(unixRange.Upper, v)

\* a run in which a 19 digit value was matched, and one in which a value
\* equal to the upper bound was matched while a larger one was refused
C15_Witness ==
  \/ \E i \in TokenIdx : tokens[i].match /\ Len(tokens[i].arg) = MaxFurther
  \/ \E i, j \in TokenIdx :
       /\ tokens[i].match
       /\ I64(FALSE, tokens[i].arg) = unixRange.Upper
       /\ tokens[j].passed /\ ~tokens[j].match
       /\ ParseInt(tokens[j].arg).ok
       /\ IntLess(unixRange.Upper, ParseInt(tokens[j].arg).value)
       /\ Len(tokens[j].arg) = Len(tokens[i].arg)

\* C16: after every call of Split that returns a token, NumberLoc is non-nil
\* exactly when that token is a candidate token.
C16_NumberLocIffCandidate ==
  \A i \in TokenIdx : (tokens[i].numberLoc # Nil) <=> IsCand(tokens[i])

\* C17: the NumberLoc of a candidate token is relative to the token: it
\* spans the token, its digits start after the zeros, at a non-zero digit,
\* and end with the token.
C17_NumberLocRelative ==
  \A i \in TokenIdx :
    LET t == tokens[i]
        loc == t.numberLoc
    IN IsCand(t) =>
         /\ loc # Nil
         /\ loc[1] = 0
         /\ loc[2] = Len(t.bytes)
         /\ 0 <= loc[3] /\ loc[3] < loc[4]
         /\ loc[4] = Len(t.bytes)
         /\ \A j \in 1..loc[3] : t.bytes[j] = "0"
         /\ t.bytes[loc[3] + 1] \in NonZeroDigits

\* a candidate with leading zeros that followed a literal prefix in the
\* buffer, so that its location was shifted (lines 273-281)
C17_Witness ==
  \E i \in TokenIdx :
    /\ i > 1 /\ tokens[i - 1].ret = 283
    /\ tokens[i].ret = 251 /\ tokens[i].numberLoc[3] > 0

\* C18: the decimal strings of the two bounds hold digits only, so minLen
\* and maxLen are the digit counts of the bounds and the prefix holds no
\* sign.
C18_BoundStringsDigitsOnly ==
  LET lowerString == FormatInt(unixRange.Lower)
      upperString == FormatInt(unixRange.Upper)
      u == newMatcher(unixRange)
  IN /\ \A j \in 1..Len(lowerString) : lowerString[j] \in Digits
     /\ \A j \in 1..Len(upperString) : upperString[j] \in Digits
     /\ u.minLen = min(Len(unixRange.Lower.digits), Len(unixRange.Upper.digits))
     /\ u.maxLen = max(Len(unixRange.Lower.digits), Len(unixRange.Upper.digits))
     /\ \A j \in 1..Len(u.prefix) : u.prefix[j] \in Digits

====
